---- MODULE Spec2Model ----
(***************************************************************************)
(* Model of src/main.py, a MAVLink ground-station monitor.                 *)
(*                                                                         *)
(* Strings are TLA+ strings.  A Python string that may contain newlines    *)
(* (a STATUSTEXT text, a formatted status entry) is the sequence of its    *)
(* lines: <<"a", "b">> is "a\nb".  A Tk Text widget is the sequence of its *)
(* newline-terminated lines; the empty line Tk keeps after the last        *)
(* newline is not stored.                                                  *)
(***************************************************************************)
EXTENDS Integers, Sequences, FiniteSets, TLC

VARIABLES
    pc,                       \* "start" | "waiting" | "mainloop": position of the main script
    all_status_messages,      \* the status log buffer, newest first
    status_text_widget,       \* lines of the status view, each [text, tag]
    system_info_text_widget,  \* lines of the vehicle-state display, each [label, text]
    stdout,                   \* lines printed so far
    stderr,                   \* exceptions reported by Tk for failed callbacks
    pending,                  \* number of scheduled detect_incoming_messages callbacks
    history,                  \* STATUSTEXT messages handled since the last clear, oldest first
    arrivals,                 \* STATUSTEXT messages handled since start
    discarded,                \* messages dropped by the startup wait
    last                      \* the most recent step: [op, msg, raised]

vars == <<pc, all_status_messages, status_text_widget, system_info_text_widget,
          stdout, stderr, pending, history, arrivals, discarded, last>>

(***************************************************************************)
(* Bounds of the model.                                                    *)
(***************************************************************************)
MaxStatusTexts == 2     \* STATUSTEXT messages handled in one run of Spec
MaxStream == 102        \* STATUSTEXT messages handled in one run of SpecStream
MaxInfoLines == 6       \* SYS_STATUS is not delivered once the display has more lines
MaxStdout == 3          \* unknown messages are not delivered once stdout is this long
MaxDiscarded == 1       \* non-HEARTBEAT messages arriving during the startup wait

(***************************************************************************)
(* Program constants.                                                      *)
(***************************************************************************)
max_messages == 100
TimestampWidth == 20
SeverityWidth == 12
TextWidth == 60
MAV_MODE_FLAG_SAFETY_ARMED == 128

severity_levels ==
    [s \in 0..7 |->
        CASE s = 0 -> <<"EMERGENCY", "red">>
          [] s = 1 -> <<"ALERT", "orange red">>
          [] s = 2 -> <<"CRITICAL", "dark orange">>
          [] s = 3 -> <<"ERROR", "red">>
          [] s = 4 -> <<"WARNING", "orange">>
          [] s = 5 -> <<"NOTICE", "green">>
          [] s = 6 -> <<"INFO", "blue">>
          [] s = 7 -> <<"DEBUG", "gray">>]

(***************************************************************************)
(* Messages the decoder can deliver.                                       *)
(***************************************************************************)
NoMsg == [type |-> "NONE"]

Severities == {3, 9}
Texts == {<<"Low battery">>, <<"PreArm:", "check GPS">>}
Timestamps == {"2026-10-30 05:00:00"}
BaseModes == {81, 209}
CustomModes == {0, 4}
Voltages == {-1, 11800, 12600}
Loads == {-1, 320}

StatusTextMsgs == [type : {"STATUSTEXT"}, severity : Severities, text : Texts]
\* mode is what mavutil.mode_string_v10 returns for the message
HeartbeatMsgs ==
    {[type |-> "HEARTBEAT", base_mode |-> b, custom_mode |-> c,
      mode |-> IF c = 4 THEN "GUIDED" ELSE "STABILIZE"] : b \in BaseModes, c \in CustomModes}
SysStatusMsgs == [type : {"SYS_STATUS"}, voltage_battery : Voltages, load : Loads]
OtherMsgs == {[type |-> "ATTITUDE", id |-> 30], [type |-> "BAD_DATA", id |-> -1]}

Messages == StatusTextMsgs \cup HeartbeatMsgs \cup SysStatusMsgs \cup OtherMsgs

(***************************************************************************)
(* String formatting.                                                      *)
(***************************************************************************)
Min(a, b) == IF a < b THEN a ELSE b

RECURSIVE Spaces(_)
Spaces(n) == IF n <= 0 THEN "" ELSE " " \o Spaces(n - 1)

\* f"{s:<w}": left-aligned, padded with spaces to width w, never truncated
PadLeft(s, w) == s \o Spaces(w - Len(s))

RECURSIVE JoinedLen(_)
\* len() of the Python string whose lines are segs
JoinedLen(segs) ==
    IF Len(segs) = 0 THEN 0
    ELSE IF Len(segs) = 1 THEN Len(segs[1])
    ELSE Len(segs[1]) + 1 + JoinedLen(Tail(segs))

\* f"{x / 10.0:.1f}" for an integer x
Fixed1(x) ==
    LET a == IF x < 0 THEN -x ELSE x
    IN (IF x < 0 THEN "-" ELSE "") \o ToString(a \div 10) \o "." \o ToString(a % 10)

\* f"{x / 1000.0:.2f}" for an integer x that is a multiple of 10
Fixed2(x) ==
    LET a == IF x < 0 THEN -x ELSE x
        h == (a + 5) \div 10
    IN (IF x < 0 THEN "-" ELSE "") \o ToString(h \div 100) \o "."
         \o (IF h % 100 < 10 THEN "0" ELSE "") \o ToString(h % 100)

(***************************************************************************)
(* Tk Text widget operations used by the program.                          *)
(***************************************************************************)
\* widget.insert('1.0', s + '\n') for the string whose lines are `lines`
InsertAtTop(widget, lines) == lines \o widget

\* widget.insert(tk.END, s + '\n') for a one-line string
InsertAtEnd(widget, line) == Append(widget, line)

\* widget.delete('1.0', tk.END)
DeleteAll(widget) == <<>>

\* widget.delete('end-2l', 'end-1l'): 'end-1l' is the empty line after the last
\* newline and 'end-2l' the line before it (both clamp to 1.0 in an empty widget)
DeleteLastLine(widget) ==
    IF Len(widget) = 0 THEN widget ELSE SubSeq(widget, 1, Len(widget) - 1)

(***************************************************************************)
(* handle_statustext                                                       *)
(***************************************************************************)
\* an unlisted code taken for the last listed one
severity_get_clamped(severity) ==
    IF severity \in DOMAIN severity_levels THEN severity_levels[severity]
    ELSE severity_levels[7]

\* severity_levels.get(severity, ('UNKNOWN', 'black'))
severity_get(severity) ==
    IF severity \in DOMAIN severity_levels THEN severity_levels[severity]
    ELSE <<"UNKNOWN", "black">>

\* f"{timestamp:<20} [{severity_description:<12}] {message_text:<60}", as lines
full_message(timestamp, severity_description, text) ==
    LET head == PadLeft(timestamp, TimestampWidth) \o " ["
                  \o PadLeft(severity_description, SeverityWidth) \o "] "
        fill == Spaces(TextWidth - JoinedLen(text))
        n == Len(text)
    IN [i \in 1..n |->
           (IF i = 1 THEN head ELSE "") \o text[i] \o (IF i = n THEN fill ELSE "")]

\* the lines the widget gains: tag_add(severity_tag, '1.0', '1.end') tags line 1 only
TaggedLines(lines, severity_tag) ==
    [i \in 1..Len(lines) |-> [text |-> lines[i], tag |-> IF i = 1 THEN severity_tag ELSE ""]]

\* lines 46-51 with the eviction left out
handle_statustext_no_evict(msg, timestamp, msgs, widget) ==
    LET entry == full_message(timestamp, severity_get(msg.severity)[1], msg.text)
    IN [msgs |-> <<entry>> \o msgs,
        widget |-> InsertAtTop(widget, TaggedLines(entry, "severity_" \o ToString(msg.severity)))]

\* line 47 appending instead of inserting at the front
handle_statustext_append(msg, timestamp, msgs, widget) ==
    LET entry == full_message(timestamp, severity_get(msg.severity)[1], msg.text)
        widget1 == InsertAtTop(widget, TaggedLines(entry, "severity_" \o ToString(msg.severity)))
        msgs1 == Append(msgs, entry)
    IN IF Len(msgs1) > max_messages
       THEN [msgs |-> SubSeq(msgs1, 1, Len(msgs1) - 1), widget |-> DeleteLastLine(widget1)]
       ELSE [msgs |-> msgs1, widget |-> widget1]

handle_statustext(msg, timestamp, msgs, widget) ==
    LET severity_description == severity_get(msg.severity)[1]
        severity_tag == "severity_" \o ToString(msg.severity)
        entry == full_message(timestamp, severity_description, msg.text)
        widget1 == InsertAtTop(widget, TaggedLines(entry, severity_tag))
        msgs1 == <<entry>> \o msgs
    IN IF Len(msgs1) > max_messages
       THEN [msgs |-> SubSeq(msgs1, 1, Len(msgs1) - 1), widget |-> DeleteLastLine(widget1)]
       ELSE [msgs |-> msgs1, widget |-> widget1]

(***************************************************************************)
(* handle_system_status                                                    *)
(***************************************************************************)
\* base_mode == flag instead of base_mode & flag
BitSet_equal(base_mode, flag) == base_mode = flag

\* base_mode & flag, for a one-bit flag
BitSet(base_mode, flag) == (base_mode \div flag) % 2 = 1

InfoLine(label, value) == [label |-> label, text |-> label \o ": " \o value]

\* line 61 left out: the display is not emptied first
handle_heartbeat_no_delete(msg, widget) ==
    LET armed_status == IF BitSet(msg.base_mode, MAV_MODE_FLAG_SAFETY_ARMED)
                        THEN "ARMED" ELSE "DISARMED"
        w2 == InsertAtEnd(widget, InfoLine("Armed Status", armed_status))
        w3 == InsertAtEnd(w2, InfoLine("Flight Mode",
                  msg.mode \o " (Custom Mode: " \o ToString(msg.custom_mode) \o ")"))
    IN [widget |-> w3, raised |-> FALSE]

\* lines 55-63
handle_heartbeat(msg, widget) ==
    LET armed_status == IF BitSet(msg.base_mode, MAV_MODE_FLAG_SAFETY_ARMED)
                        THEN "ARMED" ELSE "DISARMED"
        w1 == DeleteAll(widget)
        w2 == InsertAtEnd(w1, InfoLine("Armed Status", armed_status))
        w3 == InsertAtEnd(w2, InfoLine("Flight Mode",
                  msg.mode \o " (Custom Mode: " \o ToString(msg.custom_mode) \o ")"))
    IN [widget |-> w3, raised |-> FALSE]

\* lines 65-73.  battery_voltage and cpu_usage are the string 'N/A' for the
\* sentinel, and formatting a string with :.2f or :.1f raises ValueError: the
\* statement that formats it inserts nothing and no later statement runs.
handle_sys_status(msg, widget) ==
    LET w1 == InsertAtEnd(widget,
                  InfoLine("Battery Voltage", Fixed2(msg.voltage_battery) \o "V"))
        w2 == InsertAtEnd(w1, InfoLine("System Load", Fixed1(msg.load) \o "%"))
        w3 == InsertAtEnd(w2, InfoLine("CPU Usage", Fixed1(msg.load) \o "%"))
    IN IF msg.voltage_battery = -1 THEN [widget |-> widget, raised |-> TRUE]
       ELSE IF msg.load = -1 THEN [widget |-> w2, raised |-> TRUE]
       ELSE [widget |-> w3, raised |-> FALSE]

handle_system_status(msg, widget) ==
    IF msg.type = "HEARTBEAT" THEN handle_heartbeat(msg, widget)
    ELSE IF msg.type = "SYS_STATUS" THEN handle_sys_status(msg, widget)
    ELSE [widget |-> widget, raised |-> FALSE]

(***************************************************************************)
(* log_unknown_message                                                     *)
(***************************************************************************)
\* the type printed instead of the id
log_unknown_message_type(msg, out) ==
    Append(out, "Unknown message type received: ID " \o msg.type)

log_unknown_message(msg, out) ==
    Append(out, "Unknown message type received: ID " \o ToString(msg.id))

(***************************************************************************)
(* detect_incoming_messages, lines 82-91: the effect of one callback on    *)
(* the program's data, and whether it raised before line 94.               *)
(***************************************************************************)
\* line 88 as `if` instead of `elif`: a STATUSTEXT also reaches the else branch
detect_incoming_messages_if(msg, timestamp, msgs, status, info, out) ==
    LET same == [msgs |-> msgs, status |-> status, info |-> info, out |-> out,
                 raised |-> FALSE]
    IN IF msg = NoMsg THEN same
       ELSE IF msg.type = "STATUSTEXT"
            THEN LET r == handle_statustext(msg, timestamp, msgs, status)
                 IN [same EXCEPT !.msgs = r.msgs, !.status = r.widget,
                                 !.out = Append(out, "Unknown message type received: ID 253")]
       ELSE IF msg.type = "HEARTBEAT" \/ msg.type = "SYS_STATUS"
            THEN LET r == handle_system_status(msg, info)
                 IN [same EXCEPT !.info = r.widget, !.raised = r.raised]
       ELSE [same EXCEPT !.out = log_unknown_message(msg, out)]

\* line 83 left out: msg.get_type() on None raises AttributeError
detect_incoming_messages_no_guard(msg, timestamp, msgs, status, info, out) ==
    LET same == [msgs |-> msgs, status |-> status, info |-> info, out |-> out,
                 raised |-> FALSE]
    IN IF msg = NoMsg THEN [same EXCEPT !.raised = TRUE]
       ELSE IF msg.type = "STATUSTEXT"
            THEN LET r == handle_statustext(msg, timestamp, msgs, status)
                 IN [same EXCEPT !.msgs = r.msgs, !.status = r.widget]
       ELSE IF msg.type = "HEARTBEAT" \/ msg.type = "SYS_STATUS"
            THEN LET r == handle_system_status(msg, info)
                 IN [same EXCEPT !.info = r.widget, !.raised = r.raised]
       ELSE [same EXCEPT !.out = log_unknown_message(msg, out)]

detect_incoming_messages(msg, timestamp, msgs, status, info, out) ==
    LET same == [msgs |-> msgs, status |-> status, info |-> info, out |-> out,
                 raised |-> FALSE]
    IN IF msg = NoMsg THEN same
       ELSE IF msg.type = "STATUSTEXT"
            THEN LET r == handle_statustext(msg, timestamp, msgs, status)
                 IN [same EXCEPT !.msgs = r.msgs, !.status = r.widget]
       ELSE IF msg.type = "HEARTBEAT" \/ msg.type = "SYS_STATUS"
            THEN LET r == handle_system_status(msg, info)
                 IN [same EXCEPT !.info = r.widget, !.raised = r.raised]
       ELSE [same EXCEPT !.out = log_unknown_message(msg, out)]

(***************************************************************************)
(* clear_all_data                                                          *)
(***************************************************************************)
\* the list is not cleared
clear_all_data_keep_list(msgs, status, info) ==
    [msgs |-> msgs, status |-> DeleteAll(status), info |-> DeleteAll(info)]

clear_all_data(msgs, status, info) ==
    [msgs |-> <<>>, status |-> DeleteAll(status), info |-> DeleteAll(info)]

(***************************************************************************)
(* The state machine.                                                      *)
(***************************************************************************)
Init ==
    /\ pc = "start"
    /\ all_status_messages = <<>>
    /\ status_text_widget = <<>>
    /\ system_info_text_widget = <<>>
    /\ stdout = <<>>
    /\ stderr = <<>>
    /\ pending = 0
    /\ history = <<>>
    /\ arrivals = 0
    /\ discarded = 0
    /\ last = [op |-> "init", msg |-> NoMsg, raised |-> FALSE]

\* line 145 and line 135: the script enters wait_for_heartbeat
WaitStart ==
    /\ pc = "start"
    /\ pc' = "waiting"
    /\ stdout' = Append(stdout, "Waiting for HEARTBEAT...")
    /\ last' = [op |-> "wait", msg |-> NoMsg, raised |-> FALSE]
    /\ UNCHANGED <<all_status_messages, status_text_widget, system_info_text_widget,
                   stderr, pending, history, arrivals, discarded>>

\* recv_match without the type filter: any message opens the gate
wait_for_heartbeat_any(m) ==
    /\ pc = "waiting"
    /\ stdout' = Append(stdout, "HEARTBEAT received!")
    /\ pending' = pending + 1
    /\ pc' = "mainloop"
    /\ last' = [op |-> "wait", msg |-> m, raised |-> FALSE]
    /\ UNCHANGED <<all_status_messages, status_text_widget, system_info_text_widget,
                   stderr, history, arrivals, discarded>>

\* the HEARTBEAT that ends the wait also handed to handle_system_status
wait_for_heartbeat_apply(m) ==
    /\ pc = "waiting"
    /\ IF m.type = "HEARTBEAT"
       THEN /\ stdout' = Append(stdout, "HEARTBEAT received!")
            /\ pending' = pending + 1
            /\ pc' = "mainloop"
            /\ system_info_text_widget' =
                   handle_system_status(m, system_info_text_widget).widget
            /\ UNCHANGED discarded
       ELSE /\ discarded < MaxDiscarded
            /\ discarded' = discarded + 1
            /\ UNCHANGED <<stdout, pending, pc, system_info_text_widget>>
    /\ last' = [op |-> "wait", msg |-> m, raised |-> FALSE]
    /\ UNCHANGED <<all_status_messages, status_text_widget, stderr, history, arrivals>>

\* lines 136-142: recv_match(type='HEARTBEAT', blocking=True) reads message m;
\* it returns only a HEARTBEAT and drops everything else
wait_for_heartbeat(m) ==
    /\ pc = "waiting"
    /\ IF m.type = "HEARTBEAT"
       THEN /\ stdout' = Append(stdout, "HEARTBEAT received!")
            /\ pending' = pending + 1
            /\ pc' = "mainloop"
            /\ UNCHANGED discarded
       ELSE /\ discarded < MaxDiscarded
            /\ discarded' = discarded + 1
            /\ UNCHANGED <<stdout, pending, pc>>
    /\ last' = [op |-> "wait", msg |-> m, raised |-> FALSE]
    /\ UNCHANGED <<all_status_messages, status_text_widget, system_info_text_widget,
                   stderr, history, arrivals>>

\* the guards that keep the model finite
Deliverable(m) ==
    /\ m.type = "STATUSTEXT" => arrivals < MaxStatusTexts
    /\ m.type = "SYS_STATUS" => Len(system_info_text_widget) + 3 <= MaxInfoLines
    /\ m.type \in {"ATTITUDE", "BAD_DATA"} => Len(stdout) < MaxStdout

\* line 94 indented into the `if msg:` block: no message, no next tick
Tick_after_in_if(m, timestamp) ==
    /\ pc = "mainloop"
    /\ pending > 0
    /\ LET r == detect_incoming_messages(m, timestamp, all_status_messages,
                    status_text_widget, system_info_text_widget, stdout)
       IN /\ all_status_messages' = r.msgs
          /\ status_text_widget' = r.status
          /\ system_info_text_widget' = r.info
          /\ stdout' = r.out
          /\ stderr' = IF r.raised THEN Append(stderr, "ValueError") ELSE stderr
          /\ pending' = IF r.raised \/ m = NoMsg THEN pending - 1 ELSE pending - 1 + 1
          /\ last' = [op |-> "tick", msg |-> m, raised |-> r.raised]
          /\ history' = IF m.type = "STATUSTEXT"
                        THEN Append(history, [msg |-> m, timestamp |-> timestamp])
                        ELSE history
          /\ arrivals' = IF m.type = "STATUSTEXT" THEN arrivals + 1 ELSE arrivals
    /\ UNCHANGED <<pc, discarded>>

\* One timer callback: Tk takes the scheduled callback, runs lines 82-91 and,
\* unless they raised, line 94.  An exception ends the callback; Tk reports it
\* and goes on with the main loop.
Tick(m, timestamp) ==
    /\ pc = "mainloop"
    /\ pending > 0
    /\ LET r == detect_incoming_messages(m, timestamp, all_status_messages,
                    status_text_widget, system_info_text_widget, stdout)
       IN /\ all_status_messages' = r.msgs
          /\ status_text_widget' = r.status
          /\ system_info_text_widget' = r.info
          /\ stdout' = r.out
          /\ stderr' = IF r.raised THEN Append(stderr, "ValueError") ELSE stderr
          /\ pending' = IF r.raised THEN pending - 1 ELSE pending - 1 + 1
          /\ last' = [op |-> "tick", msg |-> m, raised |-> r.raised]
          /\ history' = IF m.type = "STATUSTEXT"
                        THEN Append(history, [msg |-> m, timestamp |-> timestamp])
                        ELSE history
          /\ arrivals' = IF m.type = "STATUSTEXT" THEN arrivals + 1 ELSE arrivals
    /\ UNCHANGED <<pc, discarded>>

\* the Clear Data button; Tk serves it only while the main loop runs
Clear ==
    /\ pc = "mainloop"
    /\ LET r == clear_all_data(all_status_messages, status_text_widget,
                               system_info_text_widget)
       IN /\ all_status_messages' = r.msgs
          /\ status_text_widget' = r.status
          /\ system_info_text_widget' = r.info
    /\ history' = <<>>
    /\ last' = [op |-> "clear", msg |-> NoMsg, raised |-> FALSE]
    /\ UNCHANGED <<pc, stdout, stderr, pending, arrivals, discarded>>

Next ==
    \/ WaitStart
    \/ \E m \in Messages : wait_for_heartbeat(m)
    \/ \E m \in Messages \cup {NoMsg} : \E timestamp \in Timestamps :
           /\ Deliverable(m)
           /\ Tick(m, timestamp)
    \/ Clear

Spec == Init /\ [][Next]_vars

(***************************************************************************)
(* A sustained stream of STATUSTEXT messages: message k carries the text of *)
(* k (every fifth one a second line too), its severity runs through 0..8,  *)
(* and the wall clock advances one second every 20 messages.               *)
(***************************************************************************)
StreamHeartbeat ==
    [type |-> "HEARTBEAT", base_mode |-> 209, custom_mode |-> 4, mode |-> "GUIDED"]

StreamMsg(k) ==
    [type |-> "STATUSTEXT", severity |-> k % 9,
     text |-> IF k % 5 = 0 THEN <<ToString(k), "detail">> ELSE <<ToString(k)>>]

StreamTime(k) == "2026-10-30 05:00:0" \o ToString(k \div 20)

StreamTick ==
    /\ arrivals < MaxStream
    /\ Tick(StreamMsg(arrivals + 1), StreamTime(arrivals + 1))

NextStream ==
    \/ WaitStart
    \/ wait_for_heartbeat(StreamHeartbeat)
    \/ StreamTick
    \/ Tick(NoMsg, "2026-10-30 05:00:00")
    \/ Tick(StreamHeartbeat, "2026-10-30 05:00:00")
    \/ Clear

SpecStream == Init /\ [][NextStream]_vars

(***************************************************************************)
(* Every HEARTBEAT the decoder can deliver: base_mode is a uint8 bitmask.  *)
(***************************************************************************)
AllBaseModes == 0..255

AllHeartbeatMsgs ==
    {[type |-> "HEARTBEAT", base_mode |-> b, custom_mode |-> c,
      mode |-> IF c = 4 THEN "GUIDED" ELSE "STABILIZE"] : b \in AllBaseModes, c \in CustomModes}

NextHeartbeat ==
    \/ WaitStart
    \/ wait_for_heartbeat(StreamHeartbeat)
    \/ \E m \in AllHeartbeatMsgs : Tick(m, "2026-10-30 05:00:00")
    \/ Clear

SpecHeartbeat == Init /\ [][NextHeartbeat]_vars

(***************************************************************************)
(* Properties.                                                             *)
(***************************************************************************)
\* the buffer entry handle_statustext makes of a handled message
Entry(h) == full_message(h.timestamp, severity_get(h.msg.severity)[1], h.msg.text)

\* the vehicle-state display, the status view and the buffer
LastTick(types) == last.op = "tick" /\ last.msg.type \in types

\* C1: between operations the buffer never holds more than max_messages entries.
C1_Capacity == Len(all_status_messages) <= max_messages

C1_Witness ==
    /\ Len(history) > max_messages
    /\ Len(all_status_messages) = max_messages
    /\ LastTick({"STATUSTEXT"})

\* C2: after N STATUSTEXT messages since the buffer was empty, the buffer holds
\* exactly the last min(N, max_messages) of them, newest first.
C2_NewestFirst ==
    LET N == Len(history)
    IN /\ Len(all_status_messages) = Min(N, max_messages)
       /\ \A i \in 1..Len(all_status_messages) :
              all_status_messages[i] = Entry(history[N + 1 - i])

\* 101 insertions leave messages 2..101
C2_Witness ==
    /\ Len(history) = max_messages + 1
    /\ arrivals = max_messages + 1
    /\ all_status_messages[1] = Entry([msg |-> StreamMsg(101), timestamp |-> StreamTime(101)])
    /\ all_status_messages[max_messages] =
           Entry([msg |-> StreamMsg(2), timestamp |-> StreamTime(2)])

\* C3: once the startup gate has passed, a tick is always scheduled, whatever
\* message the last tick handled.
C3_TickAlwaysScheduled == pc = "mainloop" => pending >= 1

\* the display line of a field, with the value the claim expects
Shown(label, value, unit) ==
    \E i \in 1..Len(system_info_text_widget) :
        /\ i > Len(system_info_text_widget) - 3
        /\ system_info_text_widget[i].label = label
        /\ system_info_text_widget[i].text \in
               {label \o ": " \o value \o unit, label \o ": " \o value}

\* C4: a SYS_STATUS carrying a sentinel is handled without failure, shows N/A
\* for the sentinel field and the scaled value for the other field.
C4_SentinelShownAsNA ==
    (LastTick({"SYS_STATUS"}) /\ (last.msg.voltage_battery = -1 \/ last.msg.load = -1)) =>
        /\ ~last.raised
        /\ Shown("Battery Voltage",
                 IF last.msg.voltage_battery = -1 THEN "N/A"
                 ELSE Fixed2(last.msg.voltage_battery), "V")
        /\ Shown("System Load",
                 IF last.msg.load = -1 THEN "N/A" ELSE Fixed1(last.msg.load), "%")

\* C5: a tick routes its message by type alone: a STATUSTEXT changes the status
\* log (one more entry at the front, one more first line in the view) and
\* neither the vehicle-state display nor the diagnostics; a HEARTBEAT or
\* SYS_STATUS changes neither the buffer, the status view nor the diagnostics.
C5_Routing ==
    [][/\ (last'.op = "tick" /\ last'.msg.type = "STATUSTEXT") =>
              /\ system_info_text_widget' = system_info_text_widget
              /\ stdout' = stdout
              /\ all_status_messages' # all_status_messages
              /\ status_text_widget' # status_text_widget
              /\ Len(all_status_messages') <= Len(all_status_messages) + 1
       /\ (last'.op = "tick" /\ last'.msg.type \in {"HEARTBEAT", "SYS_STATUS"}) =>
              /\ all_status_messages' = all_status_messages
              /\ status_text_widget' = status_text_widget
              /\ stdout' = stdout]_vars

C5_Witness ==
    /\ LastTick({"SYS_STATUS"})
    /\ Len(all_status_messages) > 0
    /\ Len(system_info_text_widget) > 0

\* C6: a tick that receives no message changes nothing and leaves exactly the
\* one scheduled tick it found.
C6_NoMessage ==
    [][(last'.op = "tick" /\ last'.msg = NoMsg) =>
           /\ UNCHANGED <<all_status_messages, status_text_widget,
                          system_info_text_widget, stdout, stderr, pending>>
           /\ ~last'.raised]_vars

C6_Witness ==
    /\ last.op = "tick" /\ last.msg = NoMsg
    /\ Len(all_status_messages) > 0
    /\ Len(system_info_text_widget) > 0
    /\ pending = 1

\* C7: a tick that receives a message of any other type prints exactly one
\* diagnostic with the message's id, changes nothing else and does not fail.
C7_Unknown ==
    [][(last'.op = "tick" /\ last'.msg.type \in {"ATTITUDE", "BAD_DATA"}) =>
           /\ stdout' = Append(stdout,
                  IF last'.msg.type = "BAD_DATA"
                  THEN "Unknown message type received: ID -1"
                  ELSE "Unknown message type received: ID 30")
           /\ UNCHANGED <<all_status_messages, status_text_widget,
                          system_info_text_widget, stderr, pending>>
           /\ ~last'.raised]_vars

C7_Witness ==
    /\ LastTick({"BAD_DATA"})
    /\ Len(all_status_messages) > 0
    /\ Len(system_info_text_widget) > 0
    /\ stdout[Len(stdout)] = "Unknown message type received: ID -1"

\* C8: a clear leaves the buffer, the status view and the vehicle-state display
\* empty; a clear right after a clear changes nothing; and the STATUSTEXT
\* messages handled after a clear fill the buffer as from the start.
C8_ClearIdempotent ==
    /\ [](Len(all_status_messages) = Min(Len(history), max_messages))
    /\ [][last'.op = "clear" =>
              /\ all_status_messages' = <<>>
              /\ status_text_widget' = <<>>
              /\ system_info_text_widget' = <<>>
              /\ last.op = "clear" =>
                     UNCHANGED <<all_status_messages, status_text_widget,
                                 system_info_text_widget>>]_vars

\* a clear after the first message, then 101 more messages
C8_Witness ==
    /\ arrivals > Len(history)
    /\ Len(history) > max_messages
    /\ Len(all_status_messages) = max_messages

\* C9: no tick is scheduled or run before the startup wait has read a
\* HEARTBEAT; only reading a HEARTBEAT ends the wait, and it schedules one tick.
C9_StartupGate ==
    /\ [](pc # "mainloop" =>
              /\ pending = 0
              /\ last.op \in {"init", "wait"}
              /\ last.msg.type # "HEARTBEAT")
    /\ [][(pc # "mainloop" /\ pc' = "mainloop") =>
              /\ pc = "waiting"
              /\ last'.op = "wait"
              /\ last'.msg.type = "HEARTBEAT"
              /\ pending' = 1]_vars

\* the wait dropped a message and then read the HEARTBEAT
C9_Witness ==
    /\ pc = "mainloop"
    /\ last.op = "wait"
    /\ last.msg.type = "HEARTBEAT"
    /\ discarded > 0
    /\ pending = 1

\* C10: the vehicle-state display holds at most one line for each field.
C10_OneValuePerField ==
    \A i, j \in 1..Len(system_info_text_widget) :
        system_info_text_widget[i].label = system_info_text_widget[j].label => i = j


\* the number of display lines with a label
CountLabel(label) ==
    Cardinality({i \in 1..Len(system_info_text_widget) :
                     system_info_text_widget[i].label = label})

\* C11: between ticks the display never shows part of a SYS_STATUS update: its
\* battery, system-load and CPU-usage lines are there together or not at all.
C11_TickAtomic ==
    /\ CountLabel("Battery Voltage") = CountLabel("System Load")
    /\ CountLabel("System Load") = CountLabel("CPU Usage")

\* the labels of the severity codes, as the specification lists them
CatalogLabel(code) ==
    CASE code = 0 -> "EMERGENCY"
      [] code = 1 -> "ALERT"
      [] code = 2 -> "CRITICAL"
      [] code = 3 -> "ERROR"
      [] code = 4 -> "WARNING"
      [] code = 5 -> "NOTICE"
      [] code = 6 -> "INFO"
      [] code = 7 -> "DEBUG"
      [] OTHER -> "UNKNOWN"

\* C12: the entry a STATUSTEXT leaves at the front of the buffer carries the
\* catalog label of its severity code, UNKNOWN for a code outside 0..7, and
\* its first line in the status view carries the tag of that code.
C12_SeverityTotal ==
    LastTick({"STATUSTEXT"}) =>
        /\ Len(history) > 0
        /\ Len(all_status_messages) > 0
        /\ all_status_messages[1] =
               full_message(history[Len(history)].timestamp,
                            CatalogLabel(last.msg.severity), last.msg.text)
        /\ status_text_widget[1].tag = "severity_" \o ToString(last.msg.severity)

\* the eighth message of the stream has severity 8
C12_Witness ==
    /\ LastTick({"STATUSTEXT"})
    /\ last.msg.severity = 8
    /\ all_status_messages[1] = full_message(StreamTime(8), "UNKNOWN", <<"8">>)
    /\ all_status_messages[5] = full_message(StreamTime(4), "WARNING", <<"4">>)


\* C13: right after a HEARTBEAT the display is exactly its armed line and its
\* flight-mode line; battery and load lines appear only in a SYS_STATUS tick,
\* which adds them below what the display shows and removes nothing.
C13_HeartbeatResets ==
    /\ [](LastTick({"HEARTBEAT"}) =>
              /\ Len(system_info_text_widget) = 2
              /\ system_info_text_widget[1].label = "Armed Status"
              /\ system_info_text_widget[1].text \in
                     {"Armed Status: ARMED", "Armed Status: DISARMED"}
              /\ system_info_text_widget[2] =
                     [label |-> "Flight Mode",
                      text |-> "Flight Mode: " \o last.msg.mode \o " (Custom Mode: "
                                 \o ToString(last.msg.custom_mode) \o ")"])
    /\ [][/\ (\/ CountLabel("Battery Voltage")' > CountLabel("Battery Voltage")
              \/ CountLabel("System Load")' > CountLabel("System Load")
              \/ CountLabel("CPU Usage")' > CountLabel("CPU Usage")) =>
                 (last'.op = "tick" /\ last'.msg.type = "SYS_STATUS")
          /\ (last'.op = "tick" /\ last'.msg.type = "SYS_STATUS") =>
                 /\ Len(system_info_text_widget') >= Len(system_info_text_widget)
                 /\ SubSeq(system_info_text_widget', 1, Len(system_info_text_widget))
                        = system_info_text_widget
                 /\ CountLabel("Armed Status")' = CountLabel("Armed Status")
                 /\ CountLabel("Flight Mode")' = CountLabel("Flight Mode")]_vars

\* a SYS_STATUS handled after a HEARTBEAT
C13_Witness ==
    /\ LastTick({"SYS_STATUS"})
    /\ Len(system_info_text_widget) = 5
    /\ system_info_text_widget[1].label = "Armed Status"
    /\ system_info_text_widget[2].label = "Flight Mode"
    /\ system_info_text_widget[3].label = "Battery Voltage"
    /\ system_info_text_widget[5].label = "CPU Usage"

\* the values a load line can show
LoadValues == {Fixed1(l) \o "%" : l \in Loads} \cup {"N/A", "N/A%"}

\* C14: every System Load line of the display is followed by a CPU Usage line
\* showing the same value.
C14_LoadEqualsCpu ==
    \A i \in 1..Len(system_info_text_widget) :
        system_info_text_widget[i].label = "System Load" =>
            /\ i + 1 <= Len(system_info_text_widget)
            /\ system_info_text_widget[i + 1].label = "CPU Usage"
            /\ \E v \in LoadValues :
                   /\ system_info_text_widget[i].text = "System Load: " \o v
                   /\ system_info_text_widget[i + 1].text = "CPU Usage: " \o v


\* C15: after a HEARTBEAT the armed line says ARMED exactly when bit 7 (128) of
\* base_mode is set, whatever the other bits and custom_mode are, and the mode
\* line shows the custom_mode of that HEARTBEAT.
C15_ArmedBit ==
    LastTick({"HEARTBEAT"}) =>
        /\ system_info_text_widget[1].text =
               (IF last.msg.base_mode >= 128 THEN "Armed Status: ARMED"
                ELSE "Armed Status: DISARMED")
        /\ system_info_text_widget[2].text =
               "Flight Mode: " \o last.msg.mode \o " (Custom Mode: "
                 \o ToString(last.msg.custom_mode) \o ")"

\* armed with other bits set, and custom_mode 0
C15_Witness ==
    /\ LastTick({"HEARTBEAT"})
    /\ last.msg.base_mode = 217
    /\ last.msg.custom_mode = 0
    /\ system_info_text_widget[1].text = "Armed Status: ARMED"
    /\ system_info_text_widget[2].text = "Flight Mode: STABILIZE (Custom Mode: 0)"


\* C16: the status view has one line per buffer entry, in the same order, and
\* each line is the text of its entry.
C16_ViewMirrorsBuffer ==
    /\ Len(status_text_widget) = Len(all_status_messages)
    /\ \A i \in 1..Len(all_status_messages) :
           i <= Len(status_text_widget) =>
               all_status_messages[i] = <<status_text_widget[i].text>>

\* C17: there is never more than one scheduled tick: none before the startup
\* wait has ended, and exactly one from then on for as long as no callback has
\* failed, whatever ticks and clears have happened.
C17_OnePending ==
    /\ pending \in {0, 1}
    /\ pc # "mainloop" => pending = 0
    /\ (pc = "mainloop" /\ stderr = <<>>) => pending = 1

\* a clear after some ticks
C17_Witness ==
    /\ last.op = "clear"
    /\ arrivals > 0
    /\ Len(stdout) > 2
    /\ pending = 1

\* C18: when the startup wait ends, the buffer, the status view and the
\* vehicle-state display are empty and nothing was routed, whatever the wait
\* read; an armed line appears only in a tick that handles a HEARTBEAT.
C18_GateAppliesNothing ==
    /\ [](last.op = "wait" =>
              /\ all_status_messages = <<>>
              /\ status_text_widget = <<>>
              /\ system_info_text_widget = <<>>
              /\ stderr = <<>>
              /\ arrivals = 0
              /\ \A i \in 1..Len(stdout) :
                     stdout[i] \in {"Waiting for HEARTBEAT...", "HEARTBEAT received!"})
    /\ [][(\/ CountLabel("Armed Status")' > CountLabel("Armed Status")
           \/ CountLabel("Flight Mode")' > CountLabel("Flight Mode")) =>
              (last'.op = "tick" /\ last'.msg.type = "HEARTBEAT")]_vars

\* the wait dropped a message, read the HEARTBEAT and left everything empty
C18_Witness ==
    /\ pc = "mainloop"
    /\ last.op = "wait"
    /\ last.msg.type = "HEARTBEAT"
    /\ discarded > 0
    /\ system_info_text_widget = <<>>
    /\ all_status_messages = <<>>
    /\ stdout = <<"Waiting for HEARTBEAT...", "HEARTBEAT received!">>

====
